---- MODULE Spec2Model ----
(***************************************************************************)
(* Model of print-proxy: the CsvToPdf pipeline of src/main.rs and the      *)
(* library copy of the same logic in src/lib.rs.                           *)
(*                                                                         *)
(*   ProxyCsv::iter_csv_images  rows of the CSV -> image buffers            *)
(*   ProxyPdf::gen_pdf          image buffers -> 3x3 pages of placements    *)
(*   ProxyPdf::make_image       bytes -> decoded image (main.rs only)       *)
(*   main / ProxyPdf::save      the CsvToPdf command                        *)
(*                                                                         *)
(* All lengths are Rust f32 values.  An f32 is modelled bit-exactly as a   *)
(* record [m, e] standing for m * 2^e with a 24-bit significand m          *)
(* (2^23 <= m < 2^24, or m = 0), and the arithmetic rounds to nearest,     *)
(* ties to even, as IEEE-754 binary32 does.  Only non-negative values      *)
(* occur in the program.                                                   *)
(***************************************************************************)
EXTENDS Integers, Sequences, FiniteSets, TLC

\* ------------------------------------------------------------ f32 values

Two12 == 2^12
Two23 == 2^23
Two24 == 2^24

F32Zero == [m |-> 0, e |-> 0]

RECURSIVE Pow2(_)
Pow2(n) == IF n = 0 THEN 1 ELSE 2 * Pow2(n - 1)

\* Round the positive integer s * 2^e to a 24-bit significand (s < 2^28).
\* k is the number of low bits that must be dropped.
RECURSIVE DropBits(_)
DropBits(s) == IF s < Two24 THEN 0 ELSE 1 + DropBits(s \div 2)

RECURSIVE F32Normalize(_, _)
F32Normalize(m, e) ==
  IF m = 0 THEN F32Zero
  ELSE IF m < Two23 THEN F32Normalize(2 * m, e - 1)
  ELSE [m |-> m, e |-> e]

\* q with the dropped part rem (out of unit), to nearest, ties to even.
F32RoundUp(q, rem, unit) ==
  (2 * rem > unit) \/ (2 * rem = unit /\ q % 2 = 1)

F32Carry(q, e) ==
  IF q = Two24 THEN [m |-> Two23, e |-> e + 1] ELSE [m |-> q, e |-> e]

F32Round(s, e) ==
  IF s < Two24 THEN F32Normalize(s, e)
  ELSE LET k    == DropBits(s)
           unit == Pow2(k)
           q    == s \div unit
           rem  == s % unit
       IN  F32Carry(IF F32RoundUp(q, rem, unit) THEN q + 1 ELSE q, e + k)

\* An integer below 2^24 is an f32 exactly (`n as f32`).
F32FromInt(n) == F32Normalize(n, 0)

\* a * b: the 48-bit product of the significands in two 24-bit halves.
F32Mul(a, b) ==
  IF a.m = 0 \/ b.m = 0 THEN F32Zero
  ELSE LET a1  == a.m \div Two12
           a0  == a.m % Two12
           b1  == b.m \div Two12
           b0  == b.m % Two12
           mid == a1 * b0 + a0 * b1
           low == a0 * b0 + (mid % Two12) * Two12
           L   == low % Two24
           H   == a1 * b1 + (mid \div Two12) + (low \div Two24)
       IN  IF H >= Two23
           THEN F32Carry(IF F32RoundUp(H, L, Two24) THEN H + 1 ELSE H,
                         a.e + b.e + 24)
           ELSE LET q   == 2 * H + (L \div Two23)
                    rem == L % Two23
                IN  F32Carry(IF F32RoundUp(q, rem, Two23) THEN q + 1 ELSE q,
                             a.e + b.e + 23)

\* Long division: n more quotient bits of r / d (r < d).
RECURSIVE DivBits(_, _, _, _)
DivBits(q, r, d, n) ==
  IF n = 0 THEN <<q, r>>
  ELSE IF 2 * r >= d THEN DivBits(2 * q + 1, 2 * r - d, d, n - 1)
       ELSE DivBits(2 * q, 2 * r, d, n - 1)

\* a / b (b /= 0).
F32Div(a, b) ==
  IF a.m = 0 THEN F32Zero
  ELSE LET big == a.m >= b.m
           qr  == IF big THEN DivBits(1, a.m - b.m, b.m, 23)
                         ELSE DivBits(0, a.m, b.m, 24)
           q   == qr[1]
           rem == qr[2]
           e   == IF big THEN a.e - b.e - 23 ELSE a.e - b.e - 24
       IN  F32Carry(IF F32RoundUp(q, rem, b.m) THEN q + 1 ELSE q, e)

\* The significand of the operand with the smaller exponent, with three
\* extra bits, shifted right by d; the last bit is sticky.
F32Align(m, d) ==
  IF d >= 27 THEN 1
  ELSE LET p  == Pow2(d)
           bq == (8 * m) \div p
       IN  IF (8 * m) % p /= 0 /\ bq % 2 = 0 THEN bq + 1 ELSE bq

F32Less(a, b) ==
  IF a.m = 0 THEN b.m /= 0
  ELSE IF b.m = 0 THEN FALSE
  ELSE a.e < b.e \/ (a.e = b.e /\ a.m < b.m)

F32Add(a, b) ==
  IF a.m = 0 THEN b
  ELSE IF b.m = 0 THEN a
  ELSE LET hi == IF a.e >= b.e THEN a ELSE b
           lo == IF a.e >= b.e THEN b ELSE a
       IN  F32Round(8 * hi.m + F32Align(lo.m, hi.e - lo.e), hi.e - 3)

\* a - b for a >= b (the program subtracts only smaller lengths).
F32Sub(a, b) ==
  IF b.m = 0 THEN a
  ELSE F32Round(8 * a.m - F32Align(b.m, a.e - b.e), a.e - 3)

\* The decimal literal n/d (n, d < 2^24): rustc rounds a literal to the
\* nearest f32, which is what the correctly rounded quotient is.
F32Lit(n, d) == F32Div(F32FromInt(n), F32FromInt(d))


\* f32::ceil
F32Ceil(a) ==
  IF a.m = 0 \/ a.e >= 0 THEN a
  ELSE IF a.e <= -24 THEN F32FromInt(1)
  ELSE LET p == Pow2(0 - a.e)
       IN  F32FromInt((a.m \div p) + (IF a.m % p /= 0 THEN 1 ELSE 0))

\* ------------------------------------------------------------ bounds

MaxRows == 2
MaxCount == 13

\* ------------------------------------------------- ProxyPdf constants

Variants == {"lib", "main"}

PAGE_HEIGHT_MM == F32FromInt(279)
PAGE_WIDTH_MM == F32FromInt(210)

\* lib.rs undersizes the card by 2 mm; main.rs does not.
LIB_CARD_HEIGHT_MM == F32Lit(869, 10)
LIB_CARD_WIDTH_MM == F32Lit(123, 2)
MAIN_CARD_HEIGHT_MM == F32Lit(889, 10)
MAIN_CARD_WIDTH_MM == F32Lit(127, 2)

CARD_HEIGHT_MM(v) ==
  IF v = "lib" THEN LIB_CARD_HEIGHT_MM ELSE MAIN_CARD_HEIGHT_MM
CARD_WIDTH_MM(v) ==
  IF v = "lib" THEN LIB_CARD_WIDTH_MM ELSE MAIN_CARD_WIDTH_MM

DPI == F32FromInt(300)

MARGIN_BETWEEN_CARDS_MM == F32FromInt(1)

\* (page - (3. * card) - (2. * MARGIN_BETWEEN_CARDS_MM)) / 2.
BorderMargin(page, card) ==
  F32Div(F32Sub(F32Sub(page, F32Mul(F32FromInt(3), card)),
                F32Mul(F32FromInt(2), MARGIN_BETWEEN_CARDS_MM)),
         F32FromInt(2))

LIB_HEIGHT_MARGIN_MM == BorderMargin(PAGE_HEIGHT_MM, LIB_CARD_HEIGHT_MM)
LIB_WIDTH_MARGIN_MM == BorderMargin(PAGE_WIDTH_MM, LIB_CARD_WIDTH_MM)
MAIN_HEIGHT_MARGIN_MM == BorderMargin(PAGE_HEIGHT_MM, MAIN_CARD_HEIGHT_MM)
MAIN_WIDTH_MARGIN_MM == BorderMargin(PAGE_WIDTH_MM, MAIN_CARD_WIDTH_MM)

HEIGHT_MARGIN_MM(v) ==
  IF v = "lib" THEN LIB_HEIGHT_MARGIN_MM ELSE MAIN_HEIGHT_MARGIN_MM

\* The difference without the division by two.
LIB_WIDTH_GAP_MM ==
  F32Sub(F32Sub(PAGE_WIDTH_MM, F32Mul(F32FromInt(3), LIB_CARD_WIDTH_MM)),
         F32Mul(F32FromInt(2), MARGIN_BETWEEN_CARDS_MM))
MAIN_WIDTH_GAP_MM ==
  F32Sub(F32Sub(PAGE_WIDTH_MM, F32Mul(F32FromInt(3), MAIN_CARD_WIDTH_MM)),
         F32Mul(F32FromInt(2), MARGIN_BETWEEN_CARDS_MM))

WidthMarginNotHalved(v) ==
  IF v = "lib" THEN LIB_WIDTH_GAP_MM ELSE MAIN_WIDTH_GAP_MM

WIDTH_MARGIN_MM(v) ==
  IF v = "lib" THEN LIB_WIDTH_MARGIN_MM ELSE MAIN_WIDTH_MARGIN_MM

\* ------------------------------------------------------ image buffers

\* A buffer is its signature, whether the data behind the signature
\* decodes, and the pixel size the decoder reports.
GoodImages ==
  { [sig |-> "jpeg", valid |-> TRUE, w |-> 488, h |-> 680],
    [sig |-> "jpeg", valid |-> TRUE, w |-> 672, h |-> 936],
    [sig |-> "png",  valid |-> TRUE, w |-> 745, h |-> 1040] }

BadImages ==
  { [sig |-> "jpeg", valid |-> FALSE, w |-> 0, h |-> 0],
    [sig |-> "png",  valid |-> FALSE, w |-> 0, h |-> 0],
    [sig |-> "gif",  valid |-> TRUE,  w |-> 0, h |-> 0],
    [sig |-> "none", valid |-> FALSE, w |-> 0, h |-> 0] }

Images == GoodImages \cup BadImages

NoImage == [sig |-> "none", valid |-> FALSE, w |-> 0, h |-> 0]

\* ImageReader::with_guessed_format().format()
GuessedFormat(bytes) ==
  CASE bytes.sig = "jpeg" -> "Jpeg"
    [] bytes.sig = "png"  -> "Png"
    [] bytes.sig = "gif"  -> "Gif"
    [] OTHER              -> "None"

\* JpegDecoder::new(bytes)? then Image::try_from(..)?
JpegDecode(bytes) ==
  IF bytes.sig = "jpeg" /\ bytes.valid THEN "Ok" ELSE "DecodeError"

\* PngDecoder::new(bytes)? then Image::try_from(..)?
PngDecode(bytes) ==
  IF bytes.sig = "png" /\ bytes.valid THEN "Ok" ELSE "DecodeError"

\* main.rs ProxyPdf::make_image
make_image(bytes) ==
  LET img_fmt == GuessedFormat(bytes)
  IN  CASE img_fmt = "None" -> "UnsupportedFormat"
        [] img_fmt = "Jpeg" -> JpegDecode(bytes)
        [] img_fmt = "Png"  -> PngDecode(bytes)
        [] OTHER            -> "UnsupportedFormat"

\* The image step of gen_pdf: lib.rs line 91, main.rs line 115.
ImageStep(v, bytes) ==
  IF v = "lib" THEN JpegDecode(bytes) ELSE make_image(bytes)

\* --------------------------------------------------- gen_pdf geometry

\* printpdf's conversion factors: 25.4, 2.834_646 and 0.352_778
MM_PER_INCH == F32Lit(254, 10)
PT_PER_MM == F32Lit(2834646, 1000000)
MM_PER_PT == F32Lit(352778, 1000000)

\* printpdf: Px::into_pt(dpi) = Pt::from(Mm(px as f32 * (25.4 / dpi)))
PxIntoPt(px, dpi) ==
  F32Mul(F32Mul(F32FromInt(px), F32Div(MM_PER_INCH, dpi)), PT_PER_MM)

\* printpdf: Mm::from(Pt)
MmFromPt(pt) == F32Mul(pt, MM_PER_PT)

height_mm(img) == MmFromPt(PxIntoPt(img.h, DPI))
width_mm(img) == MmFromPt(PxIntoPt(img.w, DPI))

height_scale(v, img) == F32Div(CARD_HEIGHT_MM(v), height_mm(img))

WidthScaleFromHeight(v, img) == F32Div(CARD_WIDTH_MM(v), height_mm(img))

width_scale(v, img) == F32Div(CARD_WIDTH_MM(v), width_mm(img))

CardsThisPageFromZero == 8 - 8

InitCardsThisPage == 8

AdvanceCards(c) == (c + 1) % 9

RowOfTransposed(c) == c % 3

RowOf(c) == c \div 3

ColOf(c) == c % 3

StartsPageOnRowOnly(row, col) == row = 0

StartsPage(row, col) == row = 0 /\ col = 0

col_cardspace(col) ==
  F32Mul(F32Ceil(F32Div(F32FromInt(col), F32FromInt(1))),
         MARGIN_BETWEEN_CARDS_MM)

row_cardspace(row) ==
  F32Mul(F32Ceil(F32Div(F32FromInt(row), F32FromInt(1))),
         MARGIN_BETWEEN_CARDS_MM)

TranslateXNoGutter(v, col) ==
  F32Add(F32Mul(F32FromInt(col), CARD_WIDTH_MM(v)), WIDTH_MARGIN_MM(v))

translate_x(v, col) ==
  F32Add(F32Add(F32Mul(F32FromInt(col), CARD_WIDTH_MM(v)),
                col_cardspace(col)),
         WIDTH_MARGIN_MM(v))

translate_y(v, row) ==
  F32Add(F32Add(F32Mul(F32FromInt(row), CARD_HEIGHT_MM(v)),
                row_cardspace(row)),
         HEIGHT_MARGIN_MM(v))


\* ------------------------------------------------------------ the CSV

\* A DeckCsvRow that deserializes carries its count; the bytes behind its
\* image_url are whatever the server answers when the row is fetched.
Counts == {0, 1, MaxCount - 1, MaxCount}

RowInputs ==
  {[ok |-> FALSE, count |-> 0]} \cup {[ok |-> TRUE, count |-> c] : c \in Counts}

RECURSIVE SeqsUpTo(_, _)
SeqsUpTo(S, n) ==
  IF n = 0 THEN {<< >>}
  ELSE LET shorter == SeqsUpTo(S, n - 1)
       IN  shorter \cup {Append(q, x) : q \in shorter, x \in S}

\* blocking::get, status().is_success(), bytes()
FetchOutcomes ==
  { [status |-> st, image |-> NoImage] :
      st \in {"fetch_failed", "http_error", "body_failed"} }
  \cup { [status |-> "ok", image |-> img] : img \in Images }

\* --------------------------------------------------------------- state

VARIABLES
  variant,          \* which copy of ProxyPdf runs: "lib" or "main"
  csv,              \* the rows of the input CSV
  rowsRead,         \* rows csv_reader.deserialize() has handed out
  srcDone,          \* map_while's closure has returned None
  copiesLeft,       \* what is left of (0..row.count) for the current row
  rowBytes,         \* `bytes` of the current row
  fetches,          \* number of blocking::get calls issued
  copiesFetched,    \* sum of count over the rows fetched successfully
  lastFetch,        \* what had been drawn when the last fetch was issued
  pc,               \* position of main / gen_pdf
  image_bytes,      \* the loop variable of gen_pdf
  pulled,           \* images the loop has received
  cards_this_page,
  pages_this_doc,
  current_layer,    \* {} is None, {p} is Some(layer of page p)
  pages,            \* the document: images drawn on each page
  placements,       \* add_to_layer calls, in order, with their transform
  error,            \* what gen_pdf returned: "None" while it has not failed
  failedAt,         \* index (from 1) of the image whose image step failed
  saveCalled,
  fileWritten

vars ==
  << variant, csv, rowsRead, srcDone, copiesLeft, rowBytes, fetches,
     copiesFetched, lastFetch, pc, image_bytes, pulled, cards_this_page,
     pages_this_doc, current_layer, pages, placements, error,
     failedAt, saveCalled, fileWritten >>

srcVars ==
  << rowsRead, srcDone, copiesLeft, rowBytes, fetches, copiesFetched,
     lastFetch >>

docVars ==
  << cards_this_page, pages_this_doc, current_layer, pages, placements >>

outVars == << error, failedAt, saveCalled, fileWritten >>

drawn == Len(placements)

Init ==
  /\ variant \in Variants
  /\ csv \in SeqsUpTo(RowInputs, MaxRows)
  /\ rowsRead = 0
  /\ srcDone = FALSE
  /\ copiesLeft = 0
  /\ rowBytes = NoImage
  /\ fetches = 0
  /\ copiesFetched = 0
  /\ lastFetch = [drawn |-> 0, owed |-> 0]
  /\ pc = "next"
  /\ image_bytes = NoImage
  /\ pulled = 0
  /\ cards_this_page = InitCardsThisPage
  /\ pages_this_doc = 0
  /\ current_layer = {}
  /\ pages = << >>
  /\ placements = << >>
  /\ error = "None"
  /\ failedAt = 0
  /\ saveCalled = FALSE
  /\ fileWritten = FALSE

\* ------------------------------------------------- iter_csv_images

\* Flatten asks the outer iterator for a row only when the inner one is
\* exhausted.
NeedsRowEager(left) == left <= 1

NeedsRow(left) == left = 0

\* The closure of map_while on one row.  A row that does not deserialize
\* returns None before any fetch; a failed fetch, a non-success status and
\* a failed body read return None after it.  None ends map_while.
NextRow ==
  /\ pc = "next"
  /\ NeedsRow(copiesLeft)
  /\ ~srcDone
  /\ rowsRead < Len(csv)
  /\ rowsRead' = rowsRead + 1
  /\ LET row == csv[rowsRead + 1]
     IN  IF ~row.ok
         THEN /\ srcDone' = TRUE
              /\ UNCHANGED << copiesLeft, rowBytes, fetches, copiesFetched,
                              lastFetch >>
         ELSE \E out \in FetchOutcomes :
                /\ fetches' = fetches + 1
                /\ lastFetch' = [drawn |-> drawn, owed |-> copiesFetched]
                /\ IF out.status = "ok"
                   THEN /\ copiesLeft' = row.count
                        /\ rowBytes' = out.image
                        /\ copiesFetched' = copiesFetched + row.count
                        /\ UNCHANGED srcDone
                   ELSE /\ srcDone' = TRUE
                        /\ UNCHANGED << copiesLeft, rowBytes, copiesFetched >>
  /\ UNCHANGED << variant, csv, pc, image_bytes, pulled >>
  /\ UNCHANGED docVars
  /\ UNCHANGED outVars

\* The inner iterator yields Cursor::new(bytes.clone()) to the for loop.
Yield ==
  /\ pc = "next"
  /\ copiesLeft > 0
  /\ copiesLeft' = copiesLeft - 1
  /\ image_bytes' = rowBytes
  /\ pulled' = pulled + 1
  /\ pc' = "layout"
  /\ UNCHANGED << variant, csv, rowsRead, srcDone, rowBytes, fetches,
                  copiesFetched, lastFetch >>
  /\ UNCHANGED docVars
  /\ UNCHANGED outVars

\* images.next() is None: the loop ends and gen_pdf returns Ok(()).
EndOfImages ==
  /\ pc = "next"
  /\ copiesLeft = 0
  /\ srcDone \/ rowsRead = Len(csv)
  /\ pc' = "ok"
  /\ UNCHANGED << variant, csv, image_bytes, pulled >>
  /\ UNCHANGED srcVars
  /\ UNCHANGED docVars
  /\ UNCHANGED outVars

\* ---------------------------------------------------------- gen_pdf

\* Advance the counter and add a page when the cell is (0, 0).
Layout ==
  /\ pc = "layout"
  /\ cards_this_page' = AdvanceCards(cards_this_page)
  /\ LET row == RowOf(cards_this_page')
         col == ColOf(cards_this_page')
     IN  IF StartsPage(row, col)
         THEN /\ pages_this_doc' = pages_this_doc + 1
              /\ pages' = Append(pages, 0)
              /\ current_layer' = {Len(pages)}
         ELSE UNCHANGED << pages_this_doc, pages, current_layer >>
  /\ pc' = "image"
  /\ UNCHANGED << variant, csv, image_bytes, pulled, placements >>
  /\ UNCHANGED srcVars
  /\ UNCHANGED outVars

SkipOnError(res) == IF res = "Ok" THEN "draw" ELSE "next"

\* `?` on the image step: an error returns from gen_pdf.
AfterImageStep(res) == IF res = "Ok" THEN "draw" ELSE "err"

MakeImage ==
  /\ pc = "image"
  /\ LET res == ImageStep(variant, image_bytes)
     IN  /\ pc' = AfterImageStep(res)
         /\ IF res = "Ok"
            THEN UNCHANGED << error, failedAt >>
            ELSE /\ error' = res
                 /\ failedAt' = pulled
  /\ UNCHANGED << variant, csv, image_bytes, pulled, saveCalled, fileWritten >>
  /\ UNCHANGED srcVars
  /\ UNCHANGED docVars

\* Sizes, scales, offsets and add_to_layer; `expect` panics on None.
Draw ==
  /\ pc = "draw"
  /\ IF current_layer = {}
     THEN /\ pc' = "panic"
          /\ UNCHANGED << pages, placements >>
     ELSE LET page == CHOOSE p \in current_layer : TRUE
              row  == RowOf(cards_this_page)
              col  == ColOf(cards_this_page)
          IN  /\ pages' = [pages EXCEPT ![page + 1] = @ + 1]
              /\ placements' =
                   Append(placements,
                          [page |-> page, row |-> row, col |-> col,
                           w |-> image_bytes.w, h |-> image_bytes.h,
                           translate_x |-> translate_x(variant, col),
                           translate_y |-> translate_y(variant, row),
                           scale_x |-> width_scale(variant, image_bytes),
                           scale_y |-> height_scale(variant, image_bytes),
                           dpi |-> DPI])
              /\ pc' = "next"
  /\ UNCHANGED << variant, csv, image_bytes, pulled, cards_this_page,
                  pages_this_doc, current_layer >>
  /\ UNCHANGED srcVars
  /\ UNCHANGED outVars

\* ------------------------------------------------------------- main

\* CsvToPdf: doc.gen_pdf(images)?; doc.save(output_pdf_path)?;
\* File::create or the write may fail.
Save ==
  /\ pc = "ok"
  /\ variant = "main"
  /\ saveCalled' = TRUE
  /\ \E written \in BOOLEAN : fileWritten' = written
  /\ pc' = "exit"
  /\ UNCHANGED << variant, csv, image_bytes, pulled, error, failedAt >>
  /\ UNCHANGED srcVars
  /\ UNCHANGED docVars

Next ==
  \/ NextRow
  \/ Yield
  \/ EndOfImages
  \/ Layout
  \/ MakeImage
  \/ Draw
  \/ Save

Spec == Init /\ [][Next]_vars


\* ------------------------------------------------------------ claims

Min(a, b) == IF a <= b THEN a ELSE b
Max(a, b) == IF a >= b THEN a ELSE b
Abs(n) == IF n >= 0 THEN n ELSE 0 - n

LastPlacement == placements[Len(placements)]

\* C1: the image at 0-based input index i is placed on page i div 9, in row
\* (i mod 9) div 3 and column (i mod 9) mod 3, and page p holds the images
\* 9p .. 9p+8 that have been drawn so far.
C1_CellOfIndex ==
  /\ \A k \in 1..Len(placements) :
       LET i == k - 1
       IN  /\ placements[k].page = i \div 9
           /\ placements[k].row = (i % 9) \div 3
           /\ placements[k].col = (i % 9) % 3
  /\ \A p \in 1..Len(pages) :
       pages[p] = Min(9, Max(0, drawn - 9 * (p - 1)))

\* C1 witness: 25 images drawn, on pages holding 9, 9 and 7; image 9 is on
\* the second page at row 0, column 0.
C1_Witness ==
  /\ drawn = 25
  /\ pages = <<9, 9, 7>>
  /\ placements[10].page = 1
  /\ placements[10].row = 0
  /\ placements[10].col = 0

\* C2: once gen_pdf has consumed N images that all decoded, the document
\* holds ceil(N / 9) pages (0 for N = 0), and with no image gen_pdf does
\* not fail.
C2_PageCount ==
  /\ pc \in {"next", "ok", "exit"} =>
       /\ Len(pages) = (drawn + 8) \div 9
       /\ pages_this_doc = Len(pages)
       /\ pulled = drawn
  /\ pulled = 0 => pc \in {"next", "ok", "exit"} /\ error = "None"
  /\ pc \in {"ok", "exit"} /\ pulled = 0 => pages = << >>

\* C2 witness: gen_pdf returned Ok after 13 images, with 2 pages.
C2_Witness ==
  /\ pc = "ok"
  /\ error = "None"
  /\ pulled = 13
  /\ drawn = 13
  /\ Len(pages) = 2

\* C3: a failing row (malformed, failed fetch, non-success status, failed
\* body read) does not end the image sequence: the loop of gen_pdf ends only
\* when every well-formed row that asks for images has been visited (and
\* its fetch tried).
C3_FailingRowIsSkipped ==
  pc \in {"ok", "exit"} =>
    \A r \in 1..Len(csv) : csv[r].ok /\ csv[r].count > 0 => r <= rowsRead

\* C4: when the image step fails on an image, gen_pdf returns the error at
\* that image, no later image is pulled or drawn, and save is never called;
\* a draw is requested only for an image that decoded, and no pulled image
\* is passed over.
C4_AbortOnBadImage ==
  /\ failedAt /= 0 =>
       /\ pc = "err"
       /\ error \in {"DecodeError", "UnsupportedFormat"}
       /\ pulled = failedAt
       /\ drawn = failedAt - 1
       /\ ~saveCalled
       /\ ~fileWritten
  /\ pc = "draw" => ImageStep(variant, image_bytes) = "Ok"
  /\ pc \in {"next", "ok", "exit"} => pulled = drawn /\ failedAt = 0
  /\ saveCalled => error = "None"

\* C4 witness: the first image of the CsvToPdf command does not decode.
C4_Witness ==
  /\ variant = "main"
  /\ pc = "err"
  /\ failedAt = 1
  /\ drawn = 0
  /\ ~saveCalled

\* |a - b| <= n units in the last place of b
F32WithinUlps(a, b, n) ==
  CASE a.e = b.e     -> Abs(a.m - b.m) <= n
    [] a.e = b.e - 1 -> Abs(a.m - 2 * b.m) <= 2 * n
    [] a.e = b.e + 1 -> Abs(2 * a.m - b.m) <= n
    [] OTHER         -> FALSE

DrawnWidth(pl) == F32Mul(pl.scale_x, width_mm(pl))
DrawnHeight(pl) == F32Mul(pl.scale_y, height_mm(pl))

\* C5 as stated: for every drawn image, scale_x * widthMm(w, DPI) is exactly
\* CARD_WIDTH_MM and scale_y * heightMm(h, DPI) is exactly CARD_HEIGHT_MM,
\* and the density passed is DPI.
C5_DrawnSizeExact ==
  drawn > 0 =>
    /\ DrawnWidth(LastPlacement) = CARD_WIDTH_MM(variant)
    /\ DrawnHeight(LastPlacement) = CARD_HEIGHT_MM(variant)
    /\ LastPlacement.dpi = DPI

\* C5 amended: the products are within one unit in the last place of the
\* card width and height, and the density passed is DPI.
C5_DrawnSizeWithinOneUlp ==
  drawn > 0 =>
    /\ LastPlacement.w >= 1
    /\ LastPlacement.h >= 1
    /\ F32WithinUlps(DrawnWidth(LastPlacement), CARD_WIDTH_MM(variant), 1)
    /\ F32WithinUlps(DrawnHeight(LastPlacement), CARD_HEIGHT_MM(variant), 1)
    /\ LastPlacement.dpi = DPI

\* C5 witness: a 488 x 680 image drawn by main.rs, whose drawn width is one
\* unit in the last place away from 63.5 mm.
C5_Witness ==
  /\ drawn > 0
  /\ variant = "main"
  /\ LastPlacement.w = 488
  /\ LastPlacement.h = 680
  /\ DrawnWidth(LastPlacement) /= CARD_WIDTH_MM(variant)
  /\ F32WithinUlps(DrawnWidth(LastPlacement), CARD_WIDTH_MM(variant), 1)

ThreeCardsTwoGapsTwoMargins(card, margin) ==
  F32Add(F32Add(F32Mul(F32FromInt(3), card),
                F32Mul(F32FromInt(2), MARGIN_BETWEEN_CARDS_MM)),
         F32Mul(F32FromInt(2), margin))

\* The subtractions of a margin do not go below zero.
MarginNotNegative(page, card) ==
  /\ ~F32Less(page, F32Mul(F32FromInt(3), card))
  /\ ~F32Less(F32Sub(page, F32Mul(F32FromInt(3), card)),
              F32Mul(F32FromInt(2), MARGIN_BETWEEN_CARDS_MM))

\* C6: with the constants of the variant that runs (either one), the
\* derived margins are non-negative and 3*CARD + 2*MARGIN_BETWEEN_CARDS +
\* 2*margin is exactly the page size, in width and in height.
C6_MarginsFillPage ==
  /\ MarginNotNegative(PAGE_WIDTH_MM, CARD_WIDTH_MM(variant))
  /\ MarginNotNegative(PAGE_HEIGHT_MM, CARD_HEIGHT_MM(variant))
  /\ ThreeCardsTwoGapsTwoMargins(CARD_WIDTH_MM(variant),
                                 WIDTH_MARGIN_MM(variant)) = PAGE_WIDTH_MM
  /\ ThreeCardsTwoGapsTwoMargins(CARD_HEIGHT_MM(variant),
                                 HEIGHT_MARGIN_MM(variant)) = PAGE_HEIGHT_MM

\* C6 witness: an image drawn in the last column, whose right edge leaves
\* exactly the width margin to the page's right edge.
C6_Witness ==
  /\ drawn > 0
  /\ LastPlacement.col = 2
  /\ F32Add(F32Add(LastPlacement.translate_x, CARD_WIDTH_MM(variant)),
            WIDTH_MARGIN_MM(variant)) = PAGE_WIDTH_MM

ClaimedX(v, col) ==
  F32Add(F32Add(F32Mul(F32FromInt(col), CARD_WIDTH_MM(v)),
                F32Mul(F32FromInt(col), MARGIN_BETWEEN_CARDS_MM)),
         WIDTH_MARGIN_MM(v))

ClaimedY(v, row) ==
  F32Add(F32Add(F32Mul(F32FromInt(row), CARD_HEIGHT_MM(v)),
                F32Mul(F32FromInt(row), MARGIN_BETWEEN_CARDS_MM)),
         HEIGHT_MARGIN_MM(v))

\* C7: the offset of a drawn image is col*CARD_WIDTH + col*MARGIN_BETWEEN +
\* WIDTH_MARGIN by row*CARD_HEIGHT + row*MARGIN_BETWEEN + HEIGHT_MARGIN, so
\* the image drawn in the same cell of the previous page has the same
\* offset, whatever the pixel sizes.
C7_OffsetOfCell ==
  drawn > 0 =>
    /\ LastPlacement.translate_x = ClaimedX(variant, LastPlacement.col)
    /\ LastPlacement.translate_y = ClaimedY(variant, LastPlacement.row)
    /\ drawn > 9 =>
         /\ placements[drawn - 9].page /= LastPlacement.page
         /\ placements[drawn - 9].row = LastPlacement.row
         /\ placements[drawn - 9].col = LastPlacement.col
         /\ placements[drawn - 9].translate_x = LastPlacement.translate_x
         /\ placements[drawn - 9].translate_y = LastPlacement.translate_y

\* C7 witness: cell (0, 0) of the first and of the second page hold images
\* of different pixel sizes at the same offset.
C7_Witness ==
  /\ drawn = 10
  /\ placements[1].row = 0 /\ placements[1].col = 0
  /\ placements[10].row = 0 /\ placements[10].col = 0
  /\ placements[1].page /= placements[10].page
  /\ placements[1].w /= placements[10].w
  /\ placements[1].scale_x /= placements[10].scale_x
  /\ placements[1].translate_x = placements[10].translate_x
  /\ placements[1].translate_y = placements[10].translate_y

\* C8: the image step succeeds on a well-formed JPEG or PNG buffer, fails
\* with UnsupportedFormat when the signature is of no supported codec, and
\* fails with DecodeError when the signature is supported but the data does
\* not decode; in both variants.
C8_NormalizerContract ==
  pc \in {"draw", "err"} =>
    LET supported == image_bytes.sig \in {"jpeg", "png"}
    IN  /\ supported /\ image_bytes.valid => pc = "draw"
        /\ ~supported => pc = "err" /\ error = "UnsupportedFormat"
        /\ supported /\ ~image_bytes.valid =>
             pc = "err" /\ error = "DecodeError"

\* C9: the loop holds at most one pulled image that is not drawn yet, asks
\* for the next image only when every pulled image has been drawn, and a
\* fetch is issued only when every copy of the rows fetched before it has
\* been drawn.
C9_PullOrder ==
  /\ pulled - drawn \in {0, 1}
  /\ pc = "next" => pulled = drawn
  /\ pc \in {"layout", "image", "draw"} => pulled = drawn + 1
  /\ lastFetch.drawn = lastFetch.owed
  /\ pulled + copiesLeft = copiesFetched

\* C9 witness: the fetch of the second row was issued after more than one
\* copy of the first row, and all of them had been drawn.
C9_Witness ==
  /\ fetches = 2
  /\ lastFetch.owed > 1
  /\ lastFetch.drawn = lastFetch.owed
  /\ drawn > lastFetch.drawn

\* C10: whenever a draw is requested the current layer is present and is
\* the layer of the page created last, so `expect` does not panic.
C10_LayerPresent ==
  /\ pc /= "panic"
  /\ pc = "draw" => Len(pages) >= 1 /\ current_layer = {Len(pages) - 1}
  /\ pulled >= 1 /\ pc /= "layout" => Len(pages) >= 1

\* C10 witness: the draw of the first image is requested, on page 1.
C10_Witness ==
  /\ pc = "draw"
  /\ pulled = 1
  /\ pages = <<0>>
  /\ current_layer = {0}

====
